---- MODULE Spec2Model ----
(***************************************************************************)
(* Model of dynamic_form/dynamic_form.py: the dynamic collection form.     *)
(*                                                                         *)
(* build_collection_form builds a Dropdown of collections and, for the     *)
(* selected collection, a dictionary of field widgets (widget_defs).       *)
(* Checkbox and radio fields are VBox widgets holding a grid of            *)
(* ToggleButtons; every other field kind is a SelectMultiple.  on_change   *)
(* is the propagation cycle run from the value observers of the controls.  *)
(* widgets_to_request reads the controls into a request.                   *)
(*                                                                         *)
(* The ipywidgets/traitlets behaviour the code relies on is modelled where *)
(* the code uses it: assigning a trait stores the value and then calls the *)
(* observers synchronously, only when the value differs; assigning the     *)
(* options of a SelectMultiple resets its index, and with it its value.    *)
(***************************************************************************)
EXTENDS Integers, Sequences, FiniteSets, TLC

(***************************************************************************)
(* Generic helpers for Python lists and dicts.                             *)
(***************************************************************************)
Range(s) == {s[i] : i \in 1..Len(s)}

Max(a, b) == IF a >= b THEN a ELSE b

\* [x for x in s if x in allowed]
Filter(s, allowed) == SelectSeq(s, LAMBDA x : x \in allowed)

\* d.get(k, dflt) for a dict modelled as a function
Get(d, k, dflt) == IF k \in DOMAIN d THEN d[k] ELSE dflt

\* the empty dict {}
EmptyDict == <<>>

(***************************************************************************)
(* form_json_to_widgets_dict                                               *)
(***************************************************************************)
ignore_widget_names == {"download_format", "data_format"}

ignore_widget_types ==
    {"ExclusiveGroupWidget", "FreeEditionWidget", "GeographicExtentWidget",
     "GeographicLocationWidget", "LicenceWidget"}

widget_map ==
    [StringListWidget |-> "checkbox",
     StringListArrayWidget |-> "checkbox",
     StringChoiceWidget |-> "radio"]

\* columns of a group or of flat details when the key is missing
DefaultColumns == 1

\* The loop over details["groups"]: acc is (labels, values, columns) so far.
RECURSIVE MergeGroups(_, _, _)
MergeGroups(groups, i, acc) ==
    IF i > Len(groups) THEN acc
    ELSE LET group == groups[i]
             gvals == Get(group, "values", <<>>)
             \* the comprehension is evaluated before the += takes place
             fresh == SelectSeq(gvals, LAMBDA v : v \notin Range(acc.values))
         IN  MergeGroups(groups, i + 1,
                 [labels  |-> Get(group, "labels", EmptyDict) @@ acc.labels,
                  values  |-> acc.values \o fresh,
                  columns |-> Max(acc.columns, Get(group, "columns", DefaultColumns))])

\* labels, values and columns of one raw widget record
WidgetDetails(widget) ==
    LET details == Get(widget, "details", EmptyDict)
    IN  IF "groups" \in DOMAIN details
        THEN MergeGroups(details.groups, 1,
                 [labels |-> EmptyDict, values |-> <<>>, columns |-> DefaultColumns])
        ELSE [labels  |-> Get(details, "labels", EmptyDict),
              values  |-> Get(details, "values", <<>>),
              columns |-> Get(details, "columns", DefaultColumns)]

\* the metadata dict stored in out_widgets[widget_name]
WidgetMeta(widget) ==
    LET widget_type == Get(widget, "type", "")
        d == WidgetDetails(widget)
        base == [k \in {"label", "type"} \cap DOMAIN widget |-> widget[k]]
    IN  [labels  |-> d.labels,
         values  |-> d.values,
         title   |-> Get(widget, "label", ""),
         type    |-> Get(widget_map, widget_type, widget_type),
         columns |-> d.columns] @@ base

\* a loop that excludes records by name only
RECURSIVE NormalizeFrom_NamesOnly(_, _, _)
NormalizeFrom_NamesOnly(form, i, out) ==
    IF i > Len(form) THEN out
    ELSE LET widget == form[i]
             widget_name == Get(widget, "name", "")
         IN  IF \/ widget_name \in ignore_widget_names
                \/ widget_name \in Range(out.keys)
             THEN NormalizeFrom_NamesOnly(form, i + 1, out)
             ELSE NormalizeFrom_NamesOnly(form, i + 1,
                      [keys |-> Append(out.keys, widget_name),
                       meta |-> (widget_name :> WidgetMeta(widget)) @@ out.meta])

\* a loop in which a later record of a name replaces the entry of that name
RECURSIVE NormalizeFrom_LastWins(_, _, _)
NormalizeFrom_LastWins(form, i, out) ==
    IF i > Len(form) THEN out
    ELSE LET widget == form[i]
             widget_name == Get(widget, "name", "")
             widget_type == Get(widget, "type", "")
         IN  IF \/ widget_name \in ignore_widget_names
                \/ widget_type \in ignore_widget_types
             THEN NormalizeFrom_LastWins(form, i + 1, out)
             ELSE NormalizeFrom_LastWins(form, i + 1,
                      [keys |-> IF widget_name \in Range(out.keys) THEN out.keys
                                ELSE Append(out.keys, widget_name),
                       meta |-> (widget_name :> WidgetMeta(widget)) @@ out.meta])

\* The loop over the raw form.  A dict is a record of its key order and its
\* entries: [keys |-> sequence of names, meta |-> function on those names].
RECURSIVE NormalizeFrom(_, _, _)
NormalizeFrom(form, i, out) ==
    IF i > Len(form) THEN out
    ELSE LET widget == form[i]
             widget_name == Get(widget, "name", "")
             widget_type == Get(widget, "type", "")
         IN  IF \/ widget_name \in ignore_widget_names
                \/ widget_type \in ignore_widget_types
                \/ widget_name \in Range(out.keys)
             THEN NormalizeFrom(form, i + 1, out)
             ELSE NormalizeFrom(form, i + 1,
                      [keys |-> Append(out.keys, widget_name),
                       meta |-> (widget_name :> WidgetMeta(widget)) @@ out.meta])

form_json_to_widgets_dict(form) ==
    NormalizeFrom(form, 1, [keys |-> <<>>, meta |-> EmptyDict])

(***************************************************************************)
(* The client: the catalogue and the collections it serves.  The raw forms *)
(* have the shape of the records form_json_to_widgets_dict reads.          *)
(***************************************************************************)
\* the alphabetical order of the collection identifiers (str.__lt__)
IdOrder == <<"collA", "collB", "collC">>

IdRank(id) == CHOOSE i \in 1..Len(IdOrder) : IdOrder[i] = id

\* client.get_collections().collection_ids, as the catalogue may list them
Catalogues == {<<"collC", "collA">>, <<"collC", "collB">>, <<"collC">>}

\* a value no form declares, which a constraint response may still name
Foreign == "zz"

CollectionForm(id) ==
    CASE id = "collA" ->
           << [name |-> "variable", type |-> "StringListArrayWidget",
               label |-> "Variable",
               details |-> [groups |->
                   << [values |-> <<"t2m", "tp">>, columns |-> 2,
                       labels |-> ("t2m" :> "Temperature")],
                      [values |-> <<"tp">>,
                       labels |-> ("tp" :> "Precipitation")] >>]],
              [name |-> "year", type |-> "StringChoiceWidget", label |-> "Year",
               details |-> [values |-> <<"2020", "2021">>, columns |-> 2,
                            default |-> <<"2021">>]],
              [name |-> "download_format", type |-> "StringChoiceWidget",
               label |-> "Format", details |-> [values |-> <<"zip">>]],
              [name |-> "licences", type |-> "LicenceWidget"],
              [name |-> "year", type |-> "StringListWidget",
               details |-> [values |-> <<"1999">>]] >>
      [] id = "collB" ->
           << [name |-> "area", type |-> "StringListInputWidget", label |-> "Area",
               details |-> [values |-> <<"eu", "us">>]],
              [name |-> "level", type |-> "StringListWidget", label |-> "Level",
               details |-> [values |-> <<"500">>, labels |-> ("500" :> "500 hPa")]] >>
      [] OTHER ->
           << [name |-> "month", type |-> "StringChoiceWidget", label |-> "Month",
               details |-> [values |-> <<"01">>]] >>

\* collections.sort(): insertion of each identifier at its place
RECURSIVE SortIds(_)
SortIds(ids) ==
    IF Len(ids) <= 1 THEN ids
    ELSE LET rest == SortIds(Tail(ids))
             x == Head(ids)
             lower == SelectSeq(rest, LAMBDA y : IdRank(y) < IdRank(x))
             upper == SelectSeq(rest, LAMBDA y : IdRank(y) >= IdRank(x))
         IN  lower \o <<x>> \o upper

(***************************************************************************)
(* The controls.  A checkbox or radio field is a VBox over ToggleButtons:  *)
(* opts are the values the buttons stand for, tb_value the buttons' value  *)
(* traits, tb_display whether a button is shown (layout.display = '').     *)
(* Any other field is a SelectMultiple with its options and value traits.  *)
(***************************************************************************)
ToggleBox(getter, options) ==
    [cls |-> "VBox", getter |-> getter, opts |-> options,
     tb_value |-> [i \in 1..Len(options) |-> FALSE],
     tb_display |-> [i \in 1..Len(options) |-> TRUE]]

SelectMultiple(options) ==
    [cls |-> "SelectMultiple", options |-> options, value |-> <<>>]

\* [opt for opt, tb in zip(opts, tb_list) if tb.value]
get_toggle_value(w) ==
    LET idx == SelectSeq([i \in 1..Len(w.opts) |-> i], LAMBDA i : w.tb_value[i])
    IN  [j \in 1..Len(idx) |-> w.opts[idx[j]]]

\* the first pressed button's value, as a list
get_radio_value(w) ==
    LET on == {i \in 1..Len(w.opts) : w.tb_value[i]}
    IN  IF on = {} THEN <<>>
        ELSE <<w.opts[CHOOSE i \in on : \A j \in on : i <= j]>>

\* widget._get_value()
GetValue(w) ==
    IF w.cls = "SelectMultiple" THEN w.value
    ELSE IF w.getter = "toggle" THEN get_toggle_value(w)
    ELSE get_radio_value(w)

\* The values a field currently offers: shown buttons, or the options.
AllowedValues(w) ==
    IF w.cls = "SelectMultiple" THEN Range(w.options)
    ELSE {w.opts[i] : i \in {j \in 1..Len(w.opts) : w.tb_display[j]}}

\* the loop of build_form over form_widgets: one control per field
BuildWidget(f_widget) ==
    IF f_widget.type = "checkbox" THEN ToggleBox("toggle", f_widget.values)
    ELSE IF f_widget.type = "radio" THEN ToggleBox("radio", f_widget.values)
    ELSE SelectMultiple(f_widget.values)

\* form_widgets of build_form, per collection
FormWidgets == [id \in Range(IdOrder) |-> form_json_to_widgets_dict(CollectionForm(id))]

build_form(collection_id) ==
    LET form_widgets == FormWidgets[collection_id]
    IN  [k \in Range(form_widgets.keys) |-> BuildWidget(form_widgets.meta[k])]

(***************************************************************************)
(* collection.apply_constraints: an external function.  Each call answers  *)
(* with a mapping (its items in iteration order) or raises.  A mapping     *)
(* names any of the form's fields, each with a list that narrows, empties, *)
(* reorders or extends the field's values; it may name an unknown key.     *)
(***************************************************************************)
\* the order-preserving sub-lists of s
RECURSIVE SubSeqs(_)
SubSeqs(s) ==
    IF s = <<>> THEN {<<>>}
    ELSE LET rest == SubSeqs(Tail(s))
         IN  rest \cup {<<Head(s)>> \o t : t \in rest}

Reverse(s) == [i \in 1..Len(s) |-> s[Len(s) + 1 - i]]

\* all values, none, the first only, the last and a foreign one, all reversed
ResponseLists(values) ==
    {values, <<>>, <<values[1]>>, <<values[Len(values)], Foreign>>, Reverse(values)}

\* the item lists over the fields keys[i..], in the form's order
RECURSIVE ItemsOver(_, _, _)
ItemsOver(fw, keys, i) ==
    IF i > Len(keys) THEN {<<>>}
    ELSE LET rest == ItemsOver(fw, keys, i + 1)
         IN  rest \cup {<< <<keys[i], l>> >> \o t :
                         l \in ResponseLists(fw.meta[keys[i]].values), t \in rest}

Failure == [ok |-> FALSE, items |-> <<>>]

Responses ==
    [id \in Range(IdOrder) |->
        {[ok |-> TRUE, items |-> it] : it \in ItemsOver(FormWidgets[id], FormWidgets[id].keys, 1)}
        \cup {[ok |-> TRUE, items |-> << <<"time", <<"00">>>> >>]}
        \cup {Failure}]

\* the keys of a response mapping
ResponseKeys(r) == {r.items[i][1] : i \in 1..Len(r.items)}

(***************************************************************************)
(* on_change, the propagation cycle.  The handler state st carries the     *)
(* controls (defs), the selection dict shared by all calls of one form,    *)
(* the answers the constraint function will give (oracle, used), the log   *)
(* of calls made (what was passed, what came back, the controls at that   *)
(* moment), and the exception raised, if any.  starved marks a run that    *)
(* needs more answers than the oracle holds; a run that still needs one    *)
(* after MaxCalls calls is cut there and ends as "CallLimit".              *)
(***************************************************************************)
\* the longest chain of apply_constraints calls one event is followed through
MaxCalls == 3

Aborted(st) == st.starved \/ st.raised # "none"

\* a snapshot that sends every field, the empty ones as empty lists
Snapshot_KeepsEmpty(selection) == selection

\* {k: v for k, v in selection.items() if v}
Snapshot(selection) ==
    [k \in {j \in DOMAIN selection : selection[j] # <<>>} |-> selection[k]]

RECURSIVE on_change(_, _)
RECURSIVE ApplyFrom(_, _, _, _)

\* an options assignment whose observers run on_change whenever the options
\* change, whether or not a value was selected
SetOptions_AlwaysNotifies(fw, st, key, values) ==
    IF values = st.defs[key].options THEN st
    ELSE on_change(fw, [st EXCEPT !.defs[key].options = values,
                                  !.defs[key].value = <<>>])

\* widget.options = values: the trait is stored, then the options observer
\* resets the index; a changed index changes the value, whose observer is
\* on_change.  An equal value is stored silently.
SetOptions(fw, st, key, values) ==
    IF values = st.defs[key].options THEN st
    ELSE LET st1 == [st EXCEPT !.defs[key].options = values]
         IN  IF st1.defs[key].value = <<>> THEN st1
             ELSE on_change(fw, [st1 EXCEPT !.defs[key].value = <<>>])

\* widget.value = new: validated against the options, stored, observers run
SetValue(fw, st, key, new) ==
    IF ~(Range(new) \subseteq Range(st.defs[key].options))
    THEN [st EXCEPT !.raised = "TraitError"]
    ELSE IF new = st.defs[key].value THEN st
    ELSE on_change(fw, [st EXCEPT !.defs[key].value = new])

\* an apply step that also releases the buttons it hides
ApplyItem_ClearsHidden(fw, st, key, values) ==
    IF key \notin DOMAIN st.defs THEN st
    ELSE LET widget == st.defs[key]
             f_values == fw.meta[key].values
             shown == [j \in 1..Len(widget.opts) |->
                          j <= Len(f_values) /\ f_values[j] \in Range(values)]
         IN  IF widget.cls = "VBox"
             THEN [st EXCEPT !.defs[key].tb_display = shown,
                             !.defs[key].tb_value =
                                 [j \in 1..Len(widget.opts) |-> @[j] /\ shown[j]]]
             ELSE LET st1 == SetOptions(fw, st, key, values)
                  IN  IF Aborted(st1) THEN st1
                      ELSE SetValue(fw, st1, key,
                               Filter(st1.selection[key], Range(values)))

\* the body of the loop over allowed_options.items() for one item
ApplyItem(fw, st, key, values) ==
    IF key \notin DOMAIN st.defs THEN st
    ELSE LET widget == st.defs[key]
             f_values == fw.meta[key].values
         IN  IF widget.cls = "VBox"
             THEN [st EXCEPT !.defs[key].tb_display =
                      [j \in 1..Len(widget.opts) |->
                          j <= Len(f_values) /\ f_values[j] \in Range(values)]]
             ELSE LET st1 == SetOptions(fw, st, key, values)
                  IN  IF Aborted(st1) THEN st1
                      ELSE SetValue(fw, st1, key,
                               Filter(st1.selection[key], Range(values)))

ApplyFrom(fw, st, items, i) ==
    IF i > Len(items) \/ Aborted(st) THEN st
    ELSE ApplyFrom(fw, ApplyItem(fw, st, items[i][1], items[i][2]), items, i + 1)

\* an on_change that shows every button of every toggle field again before
\* it applies the response, so that a field the response leaves out is reset
on_change_ResetsAbsent(fw, st) ==
    LET selection == [k \in DOMAIN st.defs |-> GetValue(st.defs[k])]
        shown == [k \in DOMAIN st.defs |->
                     IF st.defs[k].cls = "VBox"
                     THEN [st.defs[k] EXCEPT !.tb_display = [j \in 1..Len(@) |-> TRUE]]
                     ELSE st.defs[k]]
        st1 == [st EXCEPT !.selection = selection]
    IN  IF st.used >= Len(st.oracle) THEN [st1 EXCEPT !.starved = TRUE]
        ELSE LET r == st.oracle[st.used + 1]
                 st2 == [st1 EXCEPT !.used = @ + 1,
                                    !.calls = Append(@, [selection |-> Snapshot(selection),
                                                         response |-> r,
                                                         defs |-> st.defs])]
             IN  IF ~r.ok THEN [st2 EXCEPT !.raised = "ConstraintError"]
                 ELSE ApplyFrom(fw, [st2 EXCEPT !.defs = shown], r.items, 1)

on_change(fw, st) ==
    LET selection == [k \in DOMAIN st.defs |-> GetValue(st.defs[k])]
        st1 == [st EXCEPT !.selection = selection]
    IN  IF st.used >= Len(st.oracle) THEN [st1 EXCEPT !.starved = TRUE]
        ELSE LET r == st.oracle[st.used + 1]
                 st2 == [st1 EXCEPT !.used = @ + 1,
                                    !.calls = Append(@, [selection |-> Snapshot(selection),
                                                         response |-> r,
                                                         defs |-> st.defs])]
             IN  IF ~r.ok THEN [st2 EXCEPT !.raised = "ConstraintError"]
                 ELSE ApplyFrom(fw, st2, r.items, 1)

\* All ways one run of on_change from defs can end, over the answers of the
\* constraint function.
RECURSIVE Outcomes(_, _, _, _)
Outcomes(id, defs, sel, oracle) ==
    LET s == on_change(FormWidgets[id],
                 [defs |-> defs, selection |-> sel, oracle |-> oracle, used |-> 0,
                  calls |-> <<>>, raised |-> "none", starved |-> FALSE])
    IN  IF ~s.starved THEN {s}
        ELSE IF Len(oracle) >= MaxCalls THEN {[s EXCEPT !.raised = "CallLimit"]}
        ELSE UNION {Outcomes(id, defs, sel, Append(oracle, r)) : r \in Responses[id]}

(***************************************************************************)
(* widgets_to_request                                                      *)
(***************************************************************************)
\* hasattr(widget, "value"): a VBox has no value trait
HasValue(w) == w.cls = "SelectMultiple"

\* the condition of the comprehension raises AttributeError when it reaches
\* widget.value on a widget without one
RequestRaises(defs) ==
    \E k \in DOMAIN defs : GetValue(defs[k]) = <<>> /\ ~HasValue(defs[k])

\* a collapsing loop that leaves one-element lists as they are
Collapse_KeepsLists(values) == [scalar |-> FALSE, value |-> values]

\* request[key] after the collapsing loop
Collapse(values) ==
    IF Len(values) = 1 THEN [scalar |-> TRUE, value |-> values[1]]
    ELSE [scalar |-> FALSE, value |-> values]

widgets_to_request(collection_id, defs) ==
    IF RequestRaises(defs) THEN [status |-> "AttributeError"]
    ELSE LET kept == {k \in DOMAIN defs :
                         GetValue(defs[k]) # <<>> \/ defs[k].value # <<>>}
         IN  [status |-> "returned", collection_id |-> collection_id,
              request |-> [k \in kept |-> Collapse(GetValue(defs[k]))]]

(***************************************************************************)
(* The state of one build_collection_form session.                         *)
(***************************************************************************)
VARIABLES
    collections,      \* the sorted options of the collection Dropdown
    collection_value, \* collection_widget.value
    widget_defs,      \* the controls build_collection_form returned (line 183)
    form_defs,        \* the controls of the form now displayed (build_form's widget_defs)
    selection,        \* the selection dict of the form now displayed
    rebuilds,         \* how many times the collection was changed
    event,            \* the event whose handler has just run; "idle" between events
    pre_defs,         \* form_defs when that event's first cycle started
    calls,            \* the apply_constraints calls of that event, in order
    raised,           \* the exception that event's handler ended with
    request,          \* what the widgets_to_request call gave
    raw_form,         \* the raw form handed to form_json_to_widgets_dict on its own
    out_widgets       \* what that call returned

vars == <<collections, collection_value, widget_defs, form_defs, selection,
          rebuilds, event, pre_defs, calls, raised, request, raw_form, out_widgets>>

\* how many collection changes a run is followed through
MaxRebuilds == 1

NoRequest == [status |-> "none"]

\* form_json_to_widgets_dict has not been called on its own
NotCalled == [keys |-> <<>>, meta |-> EmptyDict, called |-> FALSE]

\* An event: its kind, the field and the button value it is about, whether the
\* click switched the button on (or left the list non-empty), and the field's
\* value before it.
Event(kind, key, value, on, was) ==
    [kind |-> kind, key |-> key, value |-> value, on |-> on, was |-> was]

IdleEvent == Event("idle", "", "", FALSE, <<>>)

Idle == event.kind = "idle"

Init ==
    /\ \E ids \in Catalogues : collections = SortIds(ids)
    /\ collection_value = collections[1]
    /\ form_defs = build_form(collection_value)
    /\ widget_defs = form_defs
    /\ selection = EmptyDict
    /\ rebuilds = 0
    /\ event = Event("build", "", "", FALSE, <<>>)
    /\ pre_defs = EmptyDict
    /\ calls = <<>>
    /\ raised = "none"
    /\ request = NoRequest
    /\ raw_form = <<>>
    /\ out_widgets = NotCalled

\* The controls the caller holds are those of the first form: they are the
\* displayed ones until the collection changes.
Returned(defs) == IF rebuilds = 0 THEN defs ELSE widget_defs

\* a value observer ran on_change from the controls defs
RunCycle(ev, defs) ==
    \E s \in Outcomes(collection_value, defs, selection, <<>>) :
        /\ form_defs' = s.defs
        /\ widget_defs' = Returned(s.defs)
        /\ selection' = s.selection
        /\ calls' = s.calls
        /\ raised' = s.raised
        /\ pre_defs' = defs
        /\ event' = ev
        /\ UNCHANGED <<collections, collection_value, rebuilds, request,
                       raw_form, out_widgets>>

\* The user clicks a shown button of a checkbox field.
ToggleCheckbox ==
    /\ Idle
    /\ \E key \in DOMAIN form_defs :
        /\ form_defs[key].cls = "VBox"
        /\ form_defs[key].getter = "toggle"
        /\ \E i \in 1..Len(form_defs[key].opts) :
              /\ form_defs[key].tb_display[i]
              /\ LET new == ~form_defs[key].tb_value[i]
                 IN  RunCycle(Event("toggle", key, form_defs[key].opts[i], new,
                                    GetValue(form_defs[key])),
                              [form_defs EXCEPT ![key].tb_value[i] = new])

\* an on_radio_click that leaves the other buttons of the field as they are
RadioOn_KeepsOthers(key, i) ==
    RunCycle(Event("radio", key, form_defs[key].opts[i], TRUE, GetValue(form_defs[key])),
             [form_defs EXCEPT ![key].tb_value[i] = TRUE])

\* on_radio_click on a button that was switched on: the other buttons of the
\* field are switched off, then on_change runs
RadioOn(key, i) ==
    RunCycle(Event("radio", key, form_defs[key].opts[i], TRUE, GetValue(form_defs[key])),
             [form_defs EXCEPT ![key].tb_value =
                 [j \in 1..Len(form_defs[key].opts) |-> j = i]])

\* on_radio_click on a button that was switched off: nothing else happens
RadioOff(key, i) ==
    LET defs == [form_defs EXCEPT ![key].tb_value[i] = FALSE]
    IN  /\ form_defs' = defs
        /\ widget_defs' = Returned(defs)
        /\ pre_defs' = defs
        /\ event' = Event("radio", key, form_defs[key].opts[i], FALSE,
                         GetValue(form_defs[key]))
        /\ calls' = <<>>
        /\ raised' = "none"
        /\ UNCHANGED <<collections, collection_value, selection, rebuilds, request,
                       raw_form, out_widgets>>

\* The user clicks a shown button of a radio field.
ClickRadio ==
    /\ Idle
    /\ \E key \in DOMAIN form_defs :
        /\ form_defs[key].cls = "VBox"
        /\ form_defs[key].getter = "radio"
        /\ \E i \in 1..Len(form_defs[key].opts) :
              /\ form_defs[key].tb_display[i]
              /\ IF form_defs[key].tb_value[i] THEN RadioOff(key, i) ELSE RadioOn(key, i)

\* The user changes the selection of a SelectMultiple, in the options' order.
ChangeSelect ==
    /\ Idle
    /\ \E key \in DOMAIN form_defs :
        /\ form_defs[key].cls = "SelectMultiple"
        /\ \E new \in SubSeqs(form_defs[key].options) :
              /\ new # form_defs[key].value
              /\ RunCycle(Event("select", key, "", new # <<>>, form_defs[key].value),
                          [form_defs EXCEPT ![key].value = new])

\* on_collection_change: the user picks another collection in the Dropdown.
ChangeCollection ==
    /\ Idle
    /\ rebuilds < MaxRebuilds
    /\ \E id \in Range(collections) :
        /\ id # collection_value
        /\ collection_value' = id
        /\ form_defs' = build_form(id)
        /\ selection' = EmptyDict
        /\ rebuilds' = rebuilds + 1
        /\ event' = Event("collection", "", "", FALSE, <<>>)
        /\ pre_defs' = EmptyDict
        /\ calls' = <<>>
        /\ raised' = "none"
        /\ UNCHANGED <<collections, widget_defs, request, raw_form, out_widgets>>

\* The caller extracts the request from the handle it was given.
ExtractRequest ==
    /\ Idle
    /\ request' = widgets_to_request(collection_value, widget_defs)
    /\ event' = Event("extract", "", "", FALSE, <<>>)
    /\ UNCHANGED <<collections, collection_value, widget_defs, form_defs, selection,
                   rebuilds, pre_defs, calls, raised, raw_form, out_widgets>>

\* The handler returns to the event loop; what it left for inspection goes.
Return ==
    /\ ~Idle
    /\ event' = IdleEvent
    /\ pre_defs' = EmptyDict
    /\ calls' = <<>>
    /\ raised' = "none"
    /\ request' = NoRequest
    /\ UNCHANGED <<collections, collection_value, widget_defs, form_defs, selection,
                   rebuilds, raw_form, out_widgets>>

Next ==
    \/ ToggleCheckbox
    \/ ClickRadio
    \/ ChangeSelect
    \/ ChangeCollection
    \/ ExtractRequest
    \/ Return

Spec == Init /\ [][Next]_vars

\* A session in which the collection first selected is kept.
NextForm ==
    \/ ToggleCheckbox
    \/ ClickRadio
    \/ ChangeSelect
    \/ ExtractRequest
    \/ Return

SpecForm == Init /\ [][NextForm]_vars

(***************************************************************************)
(* form_json_to_widgets_dict called on its own, over raw forms of the      *)
(* shapes the function reads: records with or without name, type, label    *)
(* and details, the details flat or grouped.                               *)
(***************************************************************************)
\* the longest raw form and the longest list of groups
MaxRecords == 2

MaxGroups == 2

\* the sequences over S of length at most n
RECURSIVE SeqsUpTo(_, _)
SeqsUpTo(S, n) ==
    IF n = 0 THEN {<<>>}
    ELSE LET shorter == SeqsUpTo(S, n - 1)
         IN  shorter \cup {Append(q, x) : q \in {t \in shorter : Len(t) = n - 1}, x \in S}

Groups ==
    {[values |-> <<"a", "b">>, labels |-> [a |-> "A"]],
     [values |-> <<"b", "c">>, columns |-> 2],
     [values |-> <<"a", "a">>]}

GroupedRecords ==
    {[name |-> "variable", type |-> "StringListArrayWidget", label |-> "Variable",
      details |-> [groups |-> g]] : g \in SeqsUpTo(Groups, MaxGroups)}

FlatDetails ==
    {[values |-> <<"x", "y">>, columns |-> 3, labels |-> [x |-> "X"]],
     [values |-> <<"y">>]}

FlatRecords ==
    {[name |-> n, type |-> t, label |-> t, details |-> d] :
        n \in {"variable", "year", "download_format"},
        t \in {"StringChoiceWidget", "LicenceWidget", "FreeTextWidget"},
        d \in FlatDetails}
    \cup {[type |-> "StringListWidget", details |-> [values |-> <<"y">>]],
          [name |-> "year"]}

RawRecords == GroupedRecords \cup FlatRecords

RawForms == SeqsUpTo(RawRecords, MaxRecords)

InitNorm ==
    /\ raw_form \in RawForms
    /\ out_widgets = NotCalled
    /\ collections = <<>>
    /\ collection_value = ""
    /\ form_defs = EmptyDict
    /\ widget_defs = EmptyDict
    /\ selection = EmptyDict
    /\ rebuilds = 0
    /\ event = IdleEvent
    /\ pre_defs = EmptyDict
    /\ calls = <<>>
    /\ raised = "none"
    /\ request = NoRequest

\* out_widgets = form_json_to_widgets_dict(form)
Normalize ==
    /\ ~out_widgets.called
    /\ out_widgets' = form_json_to_widgets_dict(raw_form) @@ [called |-> TRUE]
    /\ UNCHANGED <<collections, collection_value, widget_defs, form_defs, selection,
                   rebuilds, event, pre_defs, calls, raised, request, raw_form>>

NextNorm == Normalize

SpecNorm == InitNorm /\ [][NextNorm]_vars

(***************************************************************************)
(* Properties                                                              *)
(***************************************************************************)
\* the handler of a user-driven value change has just run
CycleDone == event.kind \in {"toggle", "radio", "select"}

\* the values a control has selected
Selected(w) == Range(GetValue(w))

\* the order in which a control lists its values
ValueOrder(w) == IF w.cls = "SelectMultiple" THEN w.options ELSE w.opts

\* the field is named by a response of the event's calls
Named(k) == \E c \in 1..Len(calls) : k \in ResponseKeys(calls[c].response)

\* C1: after every finished propagation cycle each field's selection is a
\* subset of the values the field currently allows.
C1_SubsetInvariant ==
    (CycleDone /\ calls # <<>> /\ raised = "none") =>
        \A k \in DOMAIN form_defs :
            Selected(form_defs[k]) \subseteq AllowedValues(form_defs[k])

\* C2: the changes the apply step makes to the controls never start another
\* cycle: one user-driven change makes at most one apply_constraints call.
C2_NoReentrantCycle == CycleDone => Len(calls) <= 1

\* C3: a value that was selected when the cycle started and that the field
\* still allows when the cycle has applied a list to it is still selected.
C3_ValidSelectionKept ==
    (CycleDone /\ raised = "none") =>
        \A k \in DOMAIN form_defs :
            Named(k) =>
                \A v \in Selected(pre_defs[k]) :
                    v \in AllowedValues(form_defs[k]) => v \in Selected(form_defs[k])

\* C4: when an apply_constraints call made while a change is handled raises,
\* every control is as it was when the cycle started.
C4_AtomicFailure ==
    (CycleDone /\ raised = "ConstraintError") => form_defs = pre_defs

\* C5: every user-driven value change leads to a call of apply_constraints.
C5_EveryChangeStartsCycle == CycleDone => Len(calls) >= 1

\* C6: a request extracted with the returned handle names only fields of the
\* collection whose identifier it carries.
C6_NoCarryOver ==
    request.status = "returned" =>
        DOMAIN request.request \subseteq Range(FormWidgets[request.collection_id].keys)

\* C7: widgets_to_request returns a mapping whose keys are exactly the fields
\* with a non-empty value, also when some field has nothing selected.
C7_OmitsEmptyFields ==
    event.kind = "extract" =>
        /\ request.status = "returned"
        /\ DOMAIN request.request =
               {k \in DOMAIN widget_defs : GetValue(widget_defs[k]) # <<>>}

\* C8: in a returned request a field with one selected value is mapped to that
\* value as a scalar, a field with two or more to the list of them in the
\* order the field lists its values, and none to a list shorter than two.
C8_Collapsing ==
    request.status = "returned" =>
        \A k \in DOMAIN request.request :
            LET e == request.request[k]
                S == Selected(widget_defs[k])
            IN  /\ Cardinality(S) = 1 => e.scalar /\ e.value \in S
                /\ Cardinality(S) >= 2 =>
                       ~e.scalar /\ e.value = Filter(ValueOrder(widget_defs[k]), S)
                /\ ~e.scalar => Len(e.value) >= 2

\* a request with a collapsed field and a field kept as a list
C8_Witness ==
    /\ request.status = "returned"
    /\ \E k \in DOMAIN request.request : request.request[k].scalar
    /\ \E k \in DOMAIN request.request : ~request.request[k].scalar

\* the buttons of a toggle field that are switched on
Pressed(w) == {i \in 1..Len(w.opts) : w.tb_value[i]}

\* C9: once an event is handled every radio field has at most one button
\* switched on, and after a button was switched on it is the only one.
C9_RadioExclusive ==
    /\ \A k \in DOMAIN form_defs :
           form_defs[k].cls = "VBox" /\ form_defs[k].getter = "radio" =>
               Cardinality(Pressed(form_defs[k])) <= 1
    /\ (event.kind = "radio" /\ event.on) =>
           {form_defs[event.key].opts[i] : i \in Pressed(form_defs[event.key])}
               = {event.value}

\* value y was switched on in a radio field that had value x selected
C9_Witness ==
    /\ event.kind = "radio"
    /\ event.on
    /\ event.was # <<>>
    /\ event.was # <<event.value>>
    /\ Selected(form_defs[event.key]) = {event.value}

\* C10: a field no response of the event names keeps its allowed values and
\* its selection as they were when the cycle started.
C10_SparseFrame ==
    CycleDone =>
        \A k \in DOMAIN form_defs : ~Named(k) => form_defs[k] = pre_defs[k]

\* a cycle changed a field its response names and left alone a narrowed field
\* the response does not name
C10_Witness ==
    /\ CycleDone
    /\ Len(calls) = 1
    /\ raised = "none"
    /\ \E k, j \in DOMAIN form_defs :
          /\ ~Named(k)
          /\ AllowedValues(form_defs[k]) # Range(ValueOrder(form_defs[k]))
          /\ Selected(form_defs[k]) # {}
          /\ Named(j)
          /\ form_defs[j] # pre_defs[j]

\* the SelectMultiple fields of the displayed form
SelectFields == {k \in DOMAIN form_defs : form_defs[k].cls = "SelectMultiple"}

\* C11: handling one user-driven change makes finitely many apply_constraints
\* calls, at most one more than the form has SelectMultiple fields, and the
\* handler returns.
C11_FinitelyManyCalls ==
    CycleDone =>
        /\ raised # "CallLimit"
        /\ Len(calls) <= Cardinality(SelectFields) + 1

\* a change whose apply step changed a field value, started a second cycle
\* and returned
C11_Witness ==
    /\ CycleDone
    /\ Len(calls) = 2
    /\ raised = "none"
    /\ \E k \in SelectFields : pre_defs[k].value # <<>> /\ form_defs[k].value = <<>>

\* a form has just been built: at construction or after a collection change
FormBuilt == event.kind \in {"build", "collection"}

\* C12: every time a form is built exactly one propagation cycle runs before
\* the form is handed over.
C12_InitialCycle == FormBuilt => Len(calls) = 1

\* the record is dropped by the exclusion rule
Excluded(widget) ==
    \/ Get(widget, "name", "") \in ignore_widget_names
    \/ Get(widget, "type", "") \in ignore_widget_types

\* the indices of the records of the form that carry the name and are kept
KeptIndices(form, name) ==
    {i \in 1..Len(form) : Get(form[i], "name", "") = name /\ ~Excluded(form[i])}

\* the first such record
FirstRecord(form, name) ==
    form[CHOOSE i \in KeptIndices(form, name) : \A j \in KeptIndices(form, name) : i <= j]

\* details.default of a raw record
DeclaredDefault(widget) == Get(Get(widget, "details", EmptyDict), "default", <<>>)

\* C13: right after a form is built every field's selection is the default
\* its raw record declares and its allowed values are its full value list.
C13_InitialFieldState ==
    FormBuilt =>
        \A k \in DOMAIN form_defs :
            /\ GetValue(form_defs[k]) =
                   DeclaredDefault(FirstRecord(CollectionForm(collection_value), k))
            /\ AllowedValues(form_defs[k]) =
                   Range(FormWidgets[collection_value].meta[k].values)

\* the allowed values a response's list gives the field
Offered(k, values) ==
    IF form_defs[k].cls = "VBox"
    THEN Range(values) \cap Range(FormWidgets[collection_value].meta[k].values)
    ELSE Range(values)

\* C17: when an event has been fully processed, every field named in the
\* most recent response of the constraint function has the allowed values
\* of that response.
C17_NoStaleResults ==
    (CycleDone /\ raised = "none" /\ calls # <<>>) =>
        LET r == calls[Len(calls)].response
        IN  \A i \in 1..Len(r.items) :
                r.items[i][1] \in DOMAIN form_defs =>
                    AllowedValues(form_defs[r.items[i][1]]) =
                        Offered(r.items[i][1], r.items[i][2])

\* C18: the mapping passed to each apply_constraints call holds, for every
\* field whose selection is non-empty when that cycle starts, exactly that
\* selection, and holds no key for a field whose selection is empty.
C18_SnapshotContent ==
    \A c \in 1..Len(calls) :
        LET sent == calls[c].selection
            defs == calls[c].defs
        IN  /\ DOMAIN sent \subseteq DOMAIN defs
            /\ \A k \in DOMAIN sent : sent[k] # <<>> /\ sent[k] = GetValue(defs[k])
            /\ \A k \in DOMAIN defs : GetValue(defs[k]) # <<>> => k \in DOMAIN sent

C18_Witness ==
    /\ CycleDone
    /\ \E c \in 1..Len(calls) :
           /\ DOMAIN calls[c].selection # {}
           /\ \E k \in DOMAIN calls[c].defs : GetValue(calls[c].defs[k]) = <<>>

\* C19: whatever the constraint function answers, the allowed values of
\* every field stay within the full value list of the field's definition.
C19_AllowedWithinUniverse ==
    CycleDone =>
        \A k \in DOMAIN form_defs :
            AllowedValues(form_defs[k]) \subseteq
                Range(FormWidgets[collection_value].meta[k].values)

\* the toggle fields of the form
ToggleFields == {k \in DOMAIN form_defs : form_defs[k].cls = "VBox"}

\* C20: applying a response never changes which toggle buttons are pressed:
\* it only shows or hides them.
C20_ApplyKeepsPressed ==
    CycleDone =>
        \A k \in ToggleFields : form_defs[k].tb_value = pre_defs[k].tb_value

C20_Witness ==
    /\ CycleDone
    /\ \E k \in ToggleFields : \E j \in 1..Len(form_defs[k].opts) :
           /\ form_defs[k].tb_value[j]
           /\ pre_defs[k].tb_display[j]
           /\ ~form_defs[k].tb_display[j]

\* s with every value kept at its first occurrence only
RECURSIVE FirstOccurrences(_)
FirstOccurrences(s) ==
    IF s = <<>> THEN <<>>
    ELSE LET front == FirstOccurrences(SubSeq(s, 1, Len(s) - 1))
         IN  IF s[Len(s)] \in Range(front) THEN front ELSE Append(front, s[Len(s)])

\* the value lists of the groups, one after the other
RECURSIVE GroupValues(_)
GroupValues(groups) ==
    IF groups = <<>> THEN <<>>
    ELSE GroupValues(SubSeq(groups, 1, Len(groups) - 1))
             \o Get(groups[Len(groups)], "values", <<>>)

\* the record has grouped details
Grouped(widget) == "groups" \in DOMAIN Get(widget, "details", EmptyDict)

\* C14: for a field with grouped details the value list holds every value
\* of any group exactly once, in the order of first occurrence across the
\* groups, whatever the groups are, a group that repeats a value included.
C14_GroupMerge ==
    out_widgets.called =>
        \A k \in Range(out_widgets.keys) :
            LET widget == FirstRecord(raw_form, k)
            IN  Grouped(widget) =>
                    out_widgets.meta[k].values =
                        FirstOccurrences(GroupValues(widget.details.groups))

\* C15: the output has no key of ignore_widget_names and no field built
\* from a record whose type is in ignore_widget_types; the name of every
\* other named record is a key of the output.
C15_ExclusionFilter ==
    out_widgets.called =>
        /\ Range(out_widgets.keys) \cap ignore_widget_names = {}
        /\ \A k \in Range(out_widgets.keys) :
               /\ out_widgets.meta[k].type \notin ignore_widget_types
               /\ KeptIndices(raw_form, k) # {}
        /\ \A i \in 1..Len(raw_form) :
               ("name" \in DOMAIN raw_form[i] /\ ~Excluded(raw_form[i]))
                   => raw_form[i].name \in Range(out_widgets.keys)

C15_Witness ==
    /\ out_widgets.called
    /\ \E i, j \in 1..Len(raw_form) :
           /\ Get(raw_form[i], "type", "") \in ignore_widget_types
           /\ Get(raw_form[i], "name", "") \notin ignore_widget_names
           /\ "name" \in DOMAIN raw_form[j]
           /\ ~Excluded(raw_form[j])
           /\ out_widgets.keys = <<raw_form[j].name>>

\* the first kept record of the name
FirstIndex(name) ==
    CHOOSE i \in KeptIndices(raw_form, name) :
        \A j \in KeptIndices(raw_form, name) : i <= j

\* C16: when several kept records share a name, the entry of that name is
\* built entirely from the first of them, and the keys of the output are in
\* the order in which the names first occur in the input.
C16_FirstRecordWins ==
    out_widgets.called =>
        /\ \A k \in Range(out_widgets.keys) :
               out_widgets.meta[k] = WidgetMeta(FirstRecord(raw_form, k))
        /\ \A p, q \in 1..Len(out_widgets.keys) :
               p < q => FirstIndex(out_widgets.keys[p]) < FirstIndex(out_widgets.keys[q])

C16_Witness ==
    /\ out_widgets.called
    /\ \E i, j \in 1..Len(raw_form) :
           /\ i < j
           /\ ~Excluded(raw_form[i]) /\ ~Excluded(raw_form[j])
           /\ Get(raw_form[i], "name", "") = Get(raw_form[j], "name", "")
           /\ WidgetMeta(raw_form[i]) # WidgetMeta(raw_form[j])
           /\ out_widgets.meta[Get(raw_form[i], "name", "")] = WidgetMeta(raw_form[i])

====
